---- MODULE Spec2Model ----
(***************************************************************************)
(* AutoLoginFetchApp (src/client/common/AutoLoginFetchApp.ts): a           *)
(* UrlFetchApp wrapper that logs in through a form, keeps the cookies in   *)
(* the user cache, throttles requests and retries failed ones.             *)
(*                                                                         *)
(* One instance of the class is modelled together with the cache entry it  *)
(* uses, the clock and the transport.  fetch() blocks in UrlFetchApp.fetch *)
(* only, so the control state is the call stack at a transport call: one   *)
(* action per outcome of that call runs the code up to the next call.      *)
(*                                                                         *)
(* Strings are kept abstract: a Set-Cookie value "sid=1; Expires=t" is the *)
(* sequence << <<"sid", 1>>, <<"Expires", t>> >> of its pairs, cookie      *)
(* values and dates are integers (dates in milliseconds).                  *)
(*                                                                         *)
(* Time is kept as far as the code can tell it apart.  The clock is read   *)
(* to compare it with the Expires date of a cookie, so it stops at         *)
(* Horizon, a date after every such date.  lastRequestTime is read in      *)
(* sleepIfNeeded only, as the time since then compared with                *)
(* leastIntervalMills: the variable interval is that time, up to           *)
(* leastIntervalMills.  The time since the last transport call is kept    *)
(* the same way in sinceCall, for the spacing of the calls.                *)
(***************************************************************************)
EXTENDS Integers, Sequences, FiniteSets, TLC

VARIABLES
  maxRetryCount,         \* customOptions.maxRetryCount
  leastIntervalMills,    \* customOptions.leastIntervalMills
  reusesExpiredCookies,  \* customOptions.reusesExpiredCookies (after ||=)
  storesExpiredCookies,  \* customOptions.storesExpiredCookies
  cache,                 \* the entry of the user cache under cookiesKey
  cookies,               \* this.cookies
  interval,              \* new Date().getTime() - this.lastRequestTime
  now,                   \* new Date().getTime()
  stack,                 \* the active calls of fetch / retrieveCookies
  result,                \* what the last top-level fetch gave its caller
  nCalls,                \* transport calls of the current top-level fetch
  failures,              \* how many of them threw
  lastSetCookie,         \* the Set-Cookie values of the last response
  attempts,              \* transport calls made by the innermost retry loop
  sleeps,                \* Utilities.sleep calls of the last iteration of the loop
  loginCount,            \* retrieveCookies entries of the current top-level fetch
  lastCall,              \* url and params of the last transport call
  lastFailure,           \* detail of the error it threw, "" when it returned
  cookiesAtCall,         \* this.cookies when the top-level fetch was called
  cachedAtConstruct,     \* what Cache.get returned to the constructor
  constructedAt,         \* the clock at construction
  fetchNo,               \* top-level fetches started on this instance
  sinceCall,             \* time since the last transport call, -1 before the first
  cacheTtl,              \* expirationInSeconds of the Cache.put of the entry
  thisLoginUrl,          \* this.loginUrl
  cookiesKey,            \* this.cookiesKey
  cacheKey,              \* the key given to the last call of the cache
  requestOptions,        \* customOptions.requestOptions
  givenParams,           \* the params the caller gives fetch
  formAction,            \* the action attribute of the form of the login page
  siteCookies,           \* the Set-Cookie values the site answers with
  other,                 \* another execution of the script, at its saveCookies
  logger,                \* whether customOptions.logger is given
  logged,                \* the messages given to it in the last iteration
  nFetches, nConstructs, nTicks

vars == << maxRetryCount, leastIntervalMills, reusesExpiredCookies,
           storesExpiredCookies, cache, cookies, interval, now, stack,
           result, nCalls, failures, lastSetCookie, attempts, sleeps, loginCount,
           lastCall, lastFailure, cookiesAtCall, cachedAtConstruct, constructedAt,
           fetchNo, sinceCall, cacheTtl, thisLoginUrl, cookiesKey, cacheKey,
           requestOptions, givenParams, formAction, siteCookies, other,
           logger, logged, nFetches, nConstructs, nTicks >>

(***************************************************************************)
(* Bounds of the model.                                                    *)
(***************************************************************************)
MaxRetry == 2        \* largest maxRetryCount tried
MaxFetches == 2      \* top-level fetch calls in one behaviour
MaxConstructs == 1   \* later constructions (script executions) of the client
MaxTicks == 2        \* clock ticks in one behaviour
MaxSetCookies == 2   \* Set-Cookie values in one response
TickMillis == 1000   \* length of one clock tick

\* the dates of the model: the clock starts at 0
PastDate == 0 - TickMillis
SoonDate == TickMillis
Horizon == SoonDate + TickMillis

(***************************************************************************)
(* Program constants.                                                      *)
(***************************************************************************)
DefaultLeastIntervalMills == 5000
BackoffBaseMillis == 1000

\* customOptions.cacheExpiration, in seconds
cacheExpiration == 21600

loginUrl == "https://localhost/login"
mypageUrl == "https://localhost/mypage"

\* constructor argument authOptions; FormParameters objects are sets of
\* << key, value >> pairs with one pair for a key
authOptions ==
  { << "username", "test_username" >>, << "password", "test_password" >> }

\* the key of the cache entry: `AutoLoginFetchApp.${loginUrl}`.substring(0, 250)
KeyPrefix == "AutoLoginFetchApp."
MaxKeyLength == 250

\* the key not cut
CookiesKeyUncut(url) == KeyPrefix \o url

CookiesKey(url) ==
  LET full == KeyPrefix \o url
  IN IF Len(full) > MaxKeyLength THEN SubSeq(full, 1, MaxKeyLength) ELSE full

(***************************************************************************)
(* Values.                                                                 *)
(***************************************************************************)
\* this.cookies is undefined, or an array of parsed cookies
Undefined == [defined |-> FALSE, list |-> << >>]
Defined(list) == [defined |-> TRUE, list |-> list]

\* Cache.get gives null, or the stored string (the JSON text of an array of
\* objects with string values, which JSON.parse gives back unchanged)
NoEntry == [present |-> FALSE, value |-> << >>]
Entry(list) == [present |-> TRUE, value |-> list]

\* URLFetchRequestOptions: the keys the client sets; "absent" is a key the
\* object does not have
Absent == "absent"
NoPayload == [present |-> FALSE, fields |-> {}]
NoHeaders == [present |-> FALSE, Cookie |-> << >>]
EmptyParams ==
  [method |-> Absent, followRedirects |-> Absent, payload |-> NoPayload,
   headers |-> NoHeaders]

NoResult == [kind |-> "none", message |-> ""]
NoCall == [url |-> "", params |-> EmptyParams]

\* Object spread { ...a, ...b } of two FormParameters objects
Spread(a, b) ==
  { p \in a : \A q \in b : q[1] # p[1] } \cup b

\* whether an options object has the key
Given(opts, k) ==
  IF k \in { "payload", "headers" } THEN opts[k].present ELSE opts[k] # Absent

\* Object spread { ...a, ...b } of two options objects
SpreadOptions(a, b) ==
  [k \in DOMAIN a |-> IF Given(b, k) THEN b[k] ELSE a[k]]

(***************************************************************************)
(* The cookie package.                                                     *)
(***************************************************************************)
\* the keys of an object, as a set
Keys(obj) == { obj[i][1] : i \in DOMAIN obj }

\* cookie.parse(str): the pairs of the string as an object; of two pairs with
\* the same key the first one is kept
RECURSIVE ParseInto(_, _)
ParseInto(obj, pairs) ==
  IF pairs = << >> THEN obj
  ELSE ParseInto(IF Head(pairs)[1] \in Keys(obj) THEN obj
                 ELSE Append(obj, Head(pairs)),
                 Tail(pairs))

CookieParse(str) == ParseInto(<< >>, str)

\* cookie.serialize(key, value): the pair "key=value"
CookieSerialize(key, value) == << key, value >>

\* Object.entries(it).some(([key, value]) =>
\*     key === 'Expires' && new Date(value) < new Date())
IsExpired(it, t) ==
  \E i \in DOMAIN it : it[i][1] = "Expires" /\ it[i][2] < t

\* every instead of some
HasExpiredEvery(list, t) ==
  list # << >> /\ \A j \in DOMAIN list : IsExpired(list[j], t)

\* this.cookies?.some(it => ...)
HasExpired(list, t) == \E j \in DOMAIN list : IsExpired(list[j], t)

\* this.cookies.filter(it => !(it.Expires && new Date(it.Expires) < new Date()))
RECURSIVE RemoveExpired(_, _)
RemoveExpired(list, t) ==
  IF list = << >> THEN << >>
  ELSE (IF IsExpired(Head(list), t) THEN << >> ELSE << Head(list) >>)
       \o RemoveExpired(Tail(list), t)

\* respCookies.map(it => cookie.parse(it))
RECURSIVE ParseAll(_)
ParseAll(strs) ==
  IF strs = << >> THEN << >>
  ELSE << CookieParse(Head(strs)) >> \o ParseAll(Tail(strs))

\* this.cookies.flatMap(it => Object.entries(it).map(([key, value]) =>
\*     cookie.serialize(key, value))).join('; ')
RECURSIVE SerializeEntries(_)
SerializeEntries(it) ==
  IF it = << >> THEN << >>
  ELSE << CookieSerialize(Head(it)[1], Head(it)[2]) >>
       \o SerializeEntries(Tail(it))

RECURSIVE CookieHeader(_)
CookieHeader(list) ==
  IF list = << >> THEN << >>
  ELSE SerializeEntries(Head(list)) \o CookieHeader(Tail(list))

(***************************************************************************)
(* saveCookies(headers): the cookies kept from a response.  setCookie is   *)
(* the list of the Set-Cookie values of the response, << >> when it has no *)
(* Set-Cookie header.                                                      *)
(***************************************************************************)
HasSetCookie(setCookie) == setCookie # << >>

KeptCookies(setCookie, stores, t) ==
  IF stores THEN ParseAll(setCookie) ELSE RemoveExpired(ParseAll(setCookie), t)

\* an empty jar written for a response without Set-Cookie header
SavedCacheAlways(cur, setCookie, stores, t) ==
  Entry(KeptCookies(setCookie, stores, t))

\* this.cookies after saveCookies
SavedCookies(cur, setCookie, stores, t) ==
  IF HasSetCookie(setCookie) THEN Defined(KeptCookies(setCookie, stores, t))
  ELSE cur

\* the cache entry after saveCookies
SavedCache(cur, setCookie, stores, t) ==
  IF HasSetCookie(setCookie) THEN Entry(KeptCookies(setCookie, stores, t))
  ELSE cur

\* the expiration given in milliseconds
SavedTtlMillis(cur, setCookie) ==
  IF HasSetCookie(setCookie) THEN cacheExpiration * 1000 ELSE cur

\* the expiration of the cache entry after saveCookies: the third argument
\* of Cache.put
SavedTtl(cur, setCookie) ==
  IF HasSetCookie(setCookie) THEN cacheExpiration ELSE cur

(***************************************************************************)
(* The constructor: this.cookies from the cache entry.                     *)
(***************************************************************************)
\* the cached cookies taken as they are
LoadCookiesUnchecked(entry, reuses, t) ==
  IF entry.present /\ ~reuses THEN Defined(entry.value) ELSE Undefined

LoadCookies(entry, reuses, t) ==
  IF entry.present /\ ~reuses
    THEN IF HasExpired(entry.value, t) THEN Undefined ELSE Defined(entry.value)
    ELSE Undefined

(***************************************************************************)
(* parseLoginForm(htmlContent): the login page is the list of the elements *)
(* the selector loginFormInput matches, each with its name attribute ("",  *)
(* when it has none) and its value.                                        *)
(***************************************************************************)
RECURSIVE ParseLoginForm(_)
ParseLoginForm(inputs) ==
  IF inputs = << >> THEN {}
  ELSE LET e == inputs[Len(inputs)]
           before == ParseLoginForm(SubSeq(inputs, 1, Len(inputs) - 1))
       IN IF e.name = "" THEN before
          ELSE Spread(before, { << e.name, e.value >> })

(***************************************************************************)
(* The call stack.  A frame of fetch waits in retrieveCookies() (pc =      *)
(* "retrieveCookies") or in UrlFetchApp.fetch of attempt i (pc = "loop");  *)
(* a frame of retrieveCookies waits for the login page (pc = "get") or for *)
(* the answer to the login request (pc = "post").                          *)
(***************************************************************************)
FetchFrame(url, params, shouldRetrieveCookie, pc, i) ==
  [fn |-> "fetch", url |-> url, params |-> params,
   shouldRetrieveCookie |-> shouldRetrieveCookie, pc |-> pc, i |-> i]

RetrieveFrame(pc) ==
  [fn |-> "retrieveCookies", url |-> thisLoginUrl, params |-> EmptyParams,
   shouldRetrieveCookie |-> FALSE, pc |-> pc, i |-> 0]

\* fetch, from the merge of the options to the head of the retry loop
BuildParams(params, ck) ==
  LET merged == SpreadOptions(params, requestOptions)
  IN IF ck.defined
       THEN [merged EXCEPT !.headers =
               [present |-> TRUE, Cookie |-> CookieHeader(ck.list)]]
       ELSE merged

\* params.headers['Cookie'] = ... written to the headers object the spread
\* took from requestOptions: the spread copies the reference
OptionsAfterBuild(configured, ck) ==
  IF ck.defined /\ Given(configured, "headers")
    THEN [configured EXCEPT !.headers.Cookie = CookieHeader(ck.list)]
    ELSE configured

\* the same for the headers object of the caller's params, which the spread
\* takes when requestOptions has none
ParamsAfterBuild(params, configured, ck) ==
  IF ck.defined /\ ~Given(configured, "headers") /\ Given(params, "headers")
    THEN [params EXCEPT !.headers.Cookie = CookieHeader(ck.list)]
    ELSE params

\* an option object as the script writes it: a later execution builds its
\* objects anew
AsWritten(opts) ==
  IF Given(opts, "headers") THEN [opts EXCEPT !.headers.Cookie = << >>]
  ELSE opts

LoopFrame(url, params, shouldRetrieveCookie, ck) ==
  FetchFrame(url, BuildParams(params, ck), shouldRetrieveCookie, "loop", 1)

\* the frames a call fetch(url, params, shouldRetrieveCookie) pushes until it
\* waits for the transport
EnterFetch(url, params, shouldRetrieveCookie, ck) ==
  IF shouldRetrieveCookie /\ ~ck.defined
    THEN << FetchFrame(url, params, shouldRetrieveCookie, "retrieveCookies", 0),
            RetrieveFrame("get"),
            LoopFrame(thisLoginUrl, EmptyParams, FALSE, ck) >>
    ELSE << LoopFrame(url, params, shouldRetrieveCookie, ck) >>

\* retrieveCookies entered by these frames
Logins(frames) == IF Len(frames) > 1 THEN 1 ELSE 0

\* the login request left to follow redirects
LoginRequestFollowing(content) ==
  [method |-> "post", followRedirects |-> Absent,
   payload |-> [present |-> TRUE,
                fields |-> Spread(ParseLoginForm(content), authOptions)],
   headers |-> NoHeaders]

\* the payload spread as { ...this.authOptions, ...loginFormOptions }
LoginRequestScrapedWins(content) ==
  [method |-> "post", followRedirects |-> "false",
   payload |-> [present |-> TRUE,
                fields |-> Spread(authOptions, ParseLoginForm(content))],
   headers |-> NoHeaders]

\* retrieveCookies: the login request built from the login page
LoginRequest(content) ==
  [method |-> "post", followRedirects |-> "false",
   payload |-> [present |-> TRUE,
                fields |-> Spread(ParseLoginForm(content), authOptions)],
   headers |-> NoHeaders]

\* the action of the form appended to the login URL as `${url}${action}`
LoginRequestUrlAppended(url, action) ==
  IF action = Absent THEN url \o "undefined" ELSE url \o action

\* retrieveCookies: the URL of the login request, this.fetch(this.loginUrl,
\* req, false), whatever the action of the form
LoginRequestUrl(url, action) == url

\* the login request fetched with the default shouldRetrieveCookie
LoginRequestRetrievesByDefault == TRUE

\* retrieveCookies: the third argument of the fetch of the login request
LoginRequestRetrieves == FALSE

\* the result of saveCookies not looked at
LoginFailedNever(setCookie) == FALSE

\* retrieveCookies: whether the answer to the login request is refused
LoginFailed(setCookie) == ~HasSetCookie(setCookie)

\* the constructor: lastRequestTime = new Date().getTime() - leastIntervalMills
IntervalAtConstruction(least) == least

\* sleepIfNeeded: the time slept
SleepNeeded(sinceLast, least) ==
  IF sinceLast < least THEN least - sinceLast ELSE 0

\* the clock and the time since lastRequestTime, after d milliseconds
Min(a, b) == IF a < b THEN a ELSE b
After(t, d) == Min(t + d, Horizon)
Since(sinceLast, d, least) == Min(sinceLast + d, least)

\* no transport call made yet by the instance
NoCallYet == 0 - 1

\* the time since the last transport call, after d milliseconds
SinceCallAfter(since, d, least) ==
  IF since = NoCallYet THEN NoCallYet ELSE Since(since, d, least)

\* the loop going on to the next iteration after a response
LoopAfterReturnContinues(frame, max) ==
  IF frame.i + 1 <= max THEN << [frame EXCEPT !.i = @ + 1] >> ELSE << >>

\* return response: the frames left of the fetch whose transport call
\* returned
LoopAfterReturn(frame, max) == << >>

\* the loop written with i <= this.maxRetryCount + 1
HasNextAttemptInclusive(i, max) == i <= max

\* the loop written with i < this.maxRetryCount
HasNextAttemptExclusive(i, max) == i + 1 < max

\* for (let i = 1; i <= this.maxRetryCount; i++): whether an iteration
\* follows iteration i
HasNextAttempt(i, max) == i + 1 <= max

\* no sleep after the last iteration
BackoffBeforeNext(i) ==
  IF i < maxRetryCount THEN BackoffBaseMillis * 2 ^ i ELSE 0

\* the exponent counted from 0
BackoffFromZero(i) == BackoffBaseMillis * 2 ^ (i - 1)

\* Utilities.sleep(1000 * 2 ** i) of the catch block
Backoff(i) == BackoffBaseMillis * 2 ^ i

\* the sleep of the catch block for every error
OtherBackoffAsHttp(i) == Backoff(i)

\* the catch block for an error without getResponseCode: it is logged and
\* the loop goes on, Utilities.sleep is not called
OtherBackoff(i) == 0

\* the sleeps of the catch block
BackoffSleeps(ms) ==
  IF ms > 0 THEN << [ms |-> ms, why |-> "backoff"] >> ELSE << >>

\* the message of the error fetch throws after the loop
ExhaustedMessage == "Occurred an unexpected error."
LoginFailedMessage == "Failed to retrive its Cookie."

(***************************************************************************)
(* The site.  A response carries Set-Cookie values and a page.  PastDate   *)
(* has passed from the start, SoonDate passes during a behaviour.          *)
(***************************************************************************)

SetCookieValues ==
  << << << "sid", 1 >> >>,
     << << "sid", 2 >>, << "Expires", PastDate >> >>,
     << << "sub", 3 >>, << "Expires", SoonDate >> >> >>

\* the Set-Cookie headers a response may carry: up to MaxSetCookies of the
\* values, in the order above; << >> is a response without the header
SetCookieHeaders ==
  LET vals == siteCookies
      picks == { ix \in UNION { [1..n -> DOMAIN vals] : n \in 0..MaxSetCookies } :
                   \A a, b \in DOMAIN ix : a < b => ix[a] < ix[b] }
  IN { [k \in DOMAIN ix |-> vals[ix[k]]] : ix \in picks }

\* the inputs of the login page: one without a name, a hidden one, one
\* with the name of a field of authOptions, and two buttons
LoginPage ==
  << [type |-> "text", name |-> "", value |-> "x"],
     [type |-> "hidden", name |-> "csrf", value |-> "tok"],
     [type |-> "text", name |-> "username", value |-> "scraped"],
     [type |-> "submit", name |-> "submit", value |-> "login"],
     [type |-> "button", name |-> "clear", value |-> "Clear"] >>

\* the action attribute of its form: none, empty, a path from the root, a
\* relative path
FormActions == { Absent, "", "/do-login", "do-login" }

\* a Set-Cookie value whose cookie has expired by its Max-Age
MaxAgeValue == << << "tok", 4 >>, << "Max-Age", 0 >> >>

\* the other execution before its saveCookies
IdleOther ==
  [phase |-> "idle", list |-> << >>, seen |-> NoEntry, lost |-> NoEntry]

HttpFailure == "Request failed for url returned code 429"
OtherFailure == "Address unavailable"

(***************************************************************************)
(* Initial state: a client constructed on an empty cache.                  *)
(***************************************************************************)
config == << maxRetryCount, leastIntervalMills, reusesExpiredCookies,
             storesExpiredCookies, logger >>

\* the login URL and the site
site == << thisLoginUrl, formAction, siteCookies >>

\* the option objects of the script
optionObjects == << requestOptions, givenParams >>

\* the arguments of the client and the site
arguments == << site, optionObjects >>

\* what a behaviour of the client alone leaves as it is: its arguments, the
\* site and the other execution
setting == << arguments, other >>

\* the key of the cache entry
keys == << cookiesKey, cacheKey >>

\* what is observed of the current top-level fetch
observed == << nCalls, failures, lastSetCookie, attempts, sleeps, loginCount,
               lastCall, lastFailure, cookiesAtCall, logged >>

\* what is observed of the construction
constructed == << cachedAtConstruct, constructedAt, fetchNo >>

NothingObserved ==
  /\ nCalls = 0
  /\ failures = 0
  /\ lastSetCookie = << >>
  /\ attempts = 0
  /\ sleeps = << >>
  /\ loginCount = 0
  /\ lastCall = NoCall
  /\ lastFailure = ""
  /\ cookiesAtCall = Undefined
  /\ logged = << >>

InitLogged(reuses, stores, url, options, given, action, values, log) ==
  /\ maxRetryCount \in 1..MaxRetry
  /\ logger = log
  /\ thisLoginUrl = url
  /\ cookiesKey = CookiesKey(url)
  /\ cacheKey = CookiesKey(url)
  /\ requestOptions = options
  /\ givenParams = given
  /\ formAction = action
  /\ siteCookies = values
  /\ other = IdleOther
  /\ leastIntervalMills \in {0, DefaultLeastIntervalMills}
  /\ storesExpiredCookies = stores
  /\ reusesExpiredCookies = (reuses \/ stores)
  /\ cache = NoEntry
  /\ cookies = LoadCookies(NoEntry, reuses \/ stores, 0)
  /\ now = 0
  /\ interval = IntervalAtConstruction(leastIntervalMills)
  /\ stack = << >>
  /\ result = NoResult
  /\ NothingObserved
  /\ cachedAtConstruct = NoEntry
  /\ constructedAt = 0
  /\ fetchNo = 0
  /\ sinceCall = NoCallYet
  /\ cacheTtl = 0
  /\ nFetches = 0
  /\ nConstructs = 0
  /\ nTicks = 0

\* the client without logger
InitOf(reuses, stores, url, options, given, action, values) ==
  InitLogged(reuses, stores, url, options, given, action, values, FALSE)

\* the client of the tests: no requestOptions, fetch(url), a login form
\* without action
InitWith(reuses, stores) ==
  InitOf(reuses, stores, loginUrl, EmptyParams, EmptyParams, Absent,
         SetCookieValues)

Init == \E reuses, stores \in BOOLEAN : InitWith(reuses, stores)

(***************************************************************************)
(* new AutoLoginFetchApp(loginUrl, authOptions, customOptions): a later    *)
(* execution of the script constructs the client again, on the cache the   *)
(* earlier one left.                                                       *)
(***************************************************************************)
Construct ==
  /\ stack = << >>
  /\ nConstructs < MaxConstructs
  /\ nConstructs' = nConstructs + 1
  /\ cookies' = LoadCookies(cache, reusesExpiredCookies, now)
  /\ interval' = IntervalAtConstruction(leastIntervalMills)
  /\ cachedAtConstruct' = cache
  /\ constructedAt' = now
  /\ fetchNo' = 0
  /\ result' = NoResult
  /\ nCalls' = 0
  /\ failures' = 0
  /\ lastSetCookie' = << >>
  /\ attempts' = 0
  /\ sleeps' = << >>
  /\ loginCount' = 0
  /\ lastCall' = NoCall
  /\ lastFailure' = ""
  /\ cookiesAtCall' = Undefined
  /\ logged' = << >>
  /\ sinceCall' = NoCallYet
  /\ cookiesKey' = CookiesKey(thisLoginUrl)
  /\ cacheKey' = CookiesKey(thisLoginUrl)
  /\ requestOptions' = AsWritten(requestOptions)
  /\ givenParams' = AsWritten(givenParams)
  /\ UNCHANGED << config, site, other, cache, cacheTtl, now, stack, nFetches,
                  nTicks >>

(***************************************************************************)
(* clearCachedCookies()                                                    *)
(***************************************************************************)
\* the jar of the instance dropped together with the cache entry
ClearCachedCookiesAndJar ==
  /\ stack = << >>
  /\ cache' = NoEntry
  /\ cacheTtl' = 0
  /\ cacheKey' = cookiesKey
  /\ cookies' = Undefined
  /\ UNCHANGED << config, setting, cookiesKey, interval, now, stack,
                  result, observed, constructed, sinceCall, nFetches,
                  nConstructs, nTicks >>

ClearCachedCookies ==
  /\ stack = << >>
  /\ cache' = NoEntry
  /\ cacheTtl' = 0
  /\ cacheKey' = cookiesKey
  /\ UNCHANGED << config, setting, cookiesKey, cookies, interval, now, stack,
                  result, observed, constructed, sinceCall, nFetches,
                  nConstructs, nTicks >>

(***************************************************************************)
(* The caller calls fetch(mypageUrl): the code up to the first transport   *)
(* call.                                                                   *)
(***************************************************************************)
CallFetch ==
  /\ stack = << >>
  /\ nFetches < MaxFetches
  /\ nFetches' = nFetches + 1
  /\ fetchNo' = fetchNo + 1
  /\ LET frames == EnterFetch(mypageUrl, givenParams, TRUE, cookies)
     IN /\ stack' = frames
        /\ loginCount' = Logins(frames)
  /\ result' = [kind |-> "running", message |-> ""]
  /\ cookiesAtCall' = cookies
  /\ nCalls' = 0
  /\ failures' = 0
  /\ lastSetCookie' = << >>
  /\ attempts' = 0
  /\ sleeps' = << >>
  /\ lastCall' = NoCall
  /\ lastFailure' = ""
  /\ logged' = << >>
  /\ requestOptions' = OptionsAfterBuild(requestOptions, cookies)
  /\ givenParams' = ParamsAfterBuild(givenParams, requestOptions, cookies)
  /\ UNCHANGED << config, site, other, keys, cache, cacheTtl, cookies, interval,
                  now, sinceCall, cachedAtConstruct, constructedAt,
                  nConstructs, nTicks >>

(***************************************************************************)
(* One iteration of the retry loop of the innermost fetch.                 *)
(***************************************************************************)
Top == stack[Len(stack)]
Waiting == stack # << >> /\ Top.pc = "loop"

\* the time sleepIfNeeded sleeps before this transport call, and the time of
\* the call
ThisSleep == SleepNeeded(interval, leastIntervalMills)
CallTime == After(now, ThisSleep)

IntervalSleeps ==
  IF ThisSleep > 0 THEN << [ms |-> ThisSleep, why |-> "interval"] >> ELSE << >>

\* UrlFetchApp.fetch(url, params)
Call == [url |-> Top.url, params |-> Top.params]

\* the logger called whether given or not
LoggingAlways(messages) == messages

\* logging(message) for each of the messages: the logger is called when it
\* is given
Logging(messages) == IF logger THEN messages ELSE << >>

\* the message with the url and the params of the request, before
\* sleepIfNeeded and the call
RequestMessage == [kind |-> "request", detail |-> Call]

\* the message with the status and the headers of the response
ResponseMessage(setCookie) == [kind |-> "response", detail |-> setCookie]

\* the message of the catch block for an error with a response code
TriedMessage(i) == [kind |-> "tried", detail |-> i]

\* JSON.stringify(err)
ErrorMessage == [kind |-> "error", detail |-> OtherFailure]

\* UrlFetchApp.fetch returns a response
TransportReturns ==
  /\ Waiting
  /\ \E setCookie \in SetCookieHeaders :
       LET content == LoginPage
           saved == SavedCookies(cookies, setCookie, storesExpiredCookies, CallTime)
           rest == SubSeq(stack, 1, Len(stack) - 1)
           callers == SubSeq(stack, 1, Len(stack) - 2)
       IN /\ lastSetCookie' = setCookie
          /\ cookies' = saved
          /\ cache' = SavedCache(cache, setCookie, storesExpiredCookies, CallTime)
          /\ cacheTtl' = SavedTtl(cacheTtl, setCookie)
          /\ cacheKey' = IF HasSetCookie(setCookie) THEN cookiesKey ELSE cacheKey
          /\ IF rest = << >>
               THEN \* the top-level fetch returns the response
                    /\ stack' = LoopAfterReturn(Top, maxRetryCount)
                    /\ result' = [kind |-> "response", message |-> ""]
                    /\ loginCount' = loginCount
                    /\ attempts' = attempts + 1
                    /\ UNCHANGED optionObjects
               ELSE IF rest[Len(rest)].pc = "get"
               THEN \* retrieveCookies sends the login request
                    LET frames == EnterFetch(
                                    LoginRequestUrl(thisLoginUrl, formAction),
                                    LoginRequest(content),
                                    LoginRequestRetrieves, saved)
                    IN /\ stack' = callers \o << RetrieveFrame("post") >> \o frames
                       /\ loginCount' = loginCount + Logins(frames)
                       /\ result' = result
                       /\ attempts' = 0
                       /\ requestOptions' =
                            OptionsAfterBuild(requestOptions, saved)
                       /\ givenParams' = givenParams
               ELSE IF LoginFailed(setCookie)
               THEN \* retrieveCookies throws
                    /\ stack' = << >>
                    /\ result' = [kind |-> "error", message |-> LoginFailedMessage]
                    /\ loginCount' = loginCount
                    /\ attempts' = attempts + 1
                    /\ UNCHANGED optionObjects
               ELSE \* retrieveCookies returns to the fetch that called it
                    LET f == callers[Len(callers)]
                    IN /\ stack' = SubSeq(callers, 1, Len(callers) - 1) \o
                                   << LoopFrame(f.url, f.params,
                                                f.shouldRetrieveCookie, saved) >>
                       /\ result' = result
                       /\ loginCount' = loginCount
                       /\ attempts' = 0
                       /\ requestOptions' =
                            OptionsAfterBuild(requestOptions, saved)
                       /\ givenParams' =
                            ParamsAfterBuild(givenParams, requestOptions, saved)
  /\ nCalls' = nCalls + 1
  /\ lastCall' = Call
  /\ lastFailure' = ""
  /\ logged' = Logging(<< RequestMessage, ResponseMessage(lastSetCookie') >>)
  /\ sleeps' = IntervalSleeps
  /\ now' = CallTime
  /\ interval' = 0
  /\ sinceCall' = 0
  /\ UNCHANGED << config, site, other, cookiesKey, failures, cookiesAtCall,
                  constructed, nFetches, nConstructs, nTicks >>

\* retrieveCookies called inside a try whose catch ignores the error
AfterFailureSwallowed ==
  IF HasNextAttempt(Top.i, maxRetryCount)
    THEN /\ stack' = [stack EXCEPT ![Len(stack)].i = Top.i + 1]
         /\ result' = result
    ELSE IF Len(stack) > 1
    THEN /\ stack' = << LoopFrame(stack[1].url, stack[1].params,
                                  stack[1].shouldRetrieveCookie, cookies) >>
         /\ result' = result
    ELSE /\ stack' = << >>
         /\ result' = [kind |-> "error", message |-> ExhaustedMessage]

\* the next iteration of the loop, or the throw after it
AfterFailure ==
  IF HasNextAttempt(Top.i, maxRetryCount)
    THEN /\ stack' = [stack EXCEPT ![Len(stack)].i = Top.i + 1]
         /\ result' = result
    ELSE /\ stack' = << >>
         /\ result' = [kind |-> "error", message |-> ExhaustedMessage]

\* UrlFetchApp.fetch throws an error that has getResponseCode
TransportThrowsHttp ==
  /\ Waiting
  /\ nCalls' = nCalls + 1
  /\ lastCall' = Call
  /\ failures' = failures + 1
  /\ attempts' = attempts + 1
  /\ sleeps' = IntervalSleeps \o << [ms |-> Backoff(Top.i), why |-> "backoff"] >>
  /\ now' = After(CallTime, Backoff(Top.i))
  /\ interval' = Since(interval, ThisSleep + Backoff(Top.i), leastIntervalMills)
  /\ sinceCall' = Since(0, Backoff(Top.i), leastIntervalMills)
  /\ lastFailure' = HttpFailure
  /\ logged' = Logging(<< RequestMessage, TriedMessage(Top.i) >>)
  /\ AfterFailure
  /\ UNCHANGED << config, setting, keys, cache, cacheTtl, cookies, loginCount,
                  lastSetCookie, cookiesAtCall, constructed, nFetches,
                  nConstructs, nTicks >>

\* UrlFetchApp.fetch throws any other error
TransportThrowsOther ==
  /\ Waiting
  /\ nCalls' = nCalls + 1
  /\ lastCall' = Call
  /\ failures' = failures + 1
  /\ attempts' = attempts + 1
  /\ sleeps' = IntervalSleeps \o BackoffSleeps(OtherBackoff(Top.i))
  /\ now' = After(CallTime, OtherBackoff(Top.i))
  /\ interval' = Since(interval, ThisSleep + OtherBackoff(Top.i),
                       leastIntervalMills)
  /\ sinceCall' = Since(0, OtherBackoff(Top.i), leastIntervalMills)
  /\ lastFailure' = OtherFailure
  /\ logged' = Logging(<< RequestMessage, ErrorMessage >>)
  /\ AfterFailure
  /\ UNCHANGED << config, setting, keys, cache, cacheTtl, cookies, loginCount,
                  lastSetCookie, cookiesAtCall, constructed, nFetches,
                  nConstructs, nTicks >>

(***************************************************************************)
(* Time passes.                                                            *)
(***************************************************************************)
Tick ==
  /\ nTicks < MaxTicks
  /\ nTicks' = nTicks + 1
  /\ now' = After(now, TickMillis)
  /\ interval' = Since(interval, TickMillis, leastIntervalMills)
  /\ sinceCall' = SinceCallAfter(sinceCall, TickMillis, leastIntervalMills)
  /\ UNCHANGED << config, setting, keys, cache, cacheTtl, cookies, stack,
                  result, observed, constructed, nFetches, nConstructs >>

Next ==
  \/ Construct
  \/ ClearCachedCookies
  \/ CallFetch
  \/ TransportReturns
  \/ TransportThrowsHttp
  \/ TransportThrowsOther
  \/ Tick

Spec == Init /\ [][Next]_vars

\* the client with the default reusesExpiredCookies and storesExpiredCookies
InitDefault == InitWith(FALSE, FALSE)
SpecDefault == InitDefault /\ [][Next]_vars

\* the client of a login URL that makes the key as long as MaxKeyLength less
\* one, as long as it, or longer
MaxOver == 1

RECURSIVE Pad(_)
Pad(n) ==
  IF n <= 0 THEN ""
  ELSE LET half == Pad(n \div 2)
       IN half \o half \o (IF n % 2 = 1 THEN "a" ELSE "")

LongLoginUrl(over) ==
  LET stem == loginUrl \o "?"
  IN stem \o Pad(MaxKeyLength - Len(KeyPrefix) - Len(stem) + over)

LoginUrls == { loginUrl } \cup { LongLoginUrl(over) : over \in (0 - 1)..MaxOver }

InitKey ==
  \E url \in LoginUrls :
    InitOf(FALSE, FALSE, url, EmptyParams, EmptyParams, Absent, SetCookieValues)

SpecKey == InitKey /\ [][Next]_vars

\* the client constructed with customOptions.requestOptions, and fetch
\* called with options
ConfiguredOptions ==
  { EmptyParams, [EmptyParams EXCEPT !.followRedirects = "true"] }

GivenOptions ==
  { EmptyParams,
    [EmptyParams EXCEPT !.followRedirects = "false"],
    [EmptyParams EXCEPT !.method = "get"] }

InitOptions ==
  \E options \in ConfiguredOptions, given \in GivenOptions :
    InitOf(FALSE, FALSE, loginUrl, options, given, Absent, SetCookieValues)

SpecOptions == InitOptions /\ [][Next]_vars

\* the client of a site whose login form has an action attribute
InitForm ==
  \E action \in FormActions :
    InitOf(FALSE, FALSE, loginUrl, EmptyParams, EmptyParams, action,
           SetCookieValues)

SpecForm == InitForm /\ [][Next]_vars

\* the client of a site that also sets a cookie with Max-Age
InitMaxAge ==
  InitOf(FALSE, FALSE, loginUrl, EmptyParams, EmptyParams, Absent,
         Append(SetCookieValues, MaxAgeValue))

SpecMaxAge == InitMaxAge /\ [][Next]_vars

\* the client constructed with or without customOptions.logger
InitLogging ==
  \E log \in BOOLEAN :
    InitLogged(FALSE, FALSE, loginUrl, EmptyParams, EmptyParams, Absent,
               SetCookieValues, log)

SpecLogging == InitLogging /\ [][Next]_vars

\* an option object with a headers object that has no Cookie
WithHeaders ==
  [EmptyParams EXCEPT !.headers = [present |-> TRUE, Cookie |-> << >>]]

\* the client constructed with headers in requestOptions, and fetch called
\* with headers in its params
InitHeaders ==
  \E configured, given \in { EmptyParams, WithHeaders } :
    InitOf(FALSE, FALSE, loginUrl, configured, given, Absent, SetCookieValues)

SpecHeaders == InitHeaders /\ [][Next]_vars

(***************************************************************************)
(* Another execution of the script, with a client of its own for the same  *)
(* login URL, runs saveCookies on a response it got: it parses the cookies *)
(* (lines 351-356) and then puts them in the cache the executions share    *)
(* (line 358).  seen is the cache entry at its parse, lost the one its put *)
(* replaces.                                                               *)
(***************************************************************************)
OtherParses ==
  /\ other.phase = "idle"
  /\ \E setCookie \in SetCookieHeaders :
       /\ Len(setCookie) = 1
       /\ other' = [phase |-> "pending",
                    list |-> KeptCookies(setCookie, storesExpiredCookies, now),
                    seen |-> cache, lost |-> NoEntry]
  /\ UNCHANGED << config, arguments, keys, cache, cacheTtl, cookies, interval,
                  now, sinceCall, stack, result, observed, constructed,
                  nFetches, nConstructs, nTicks >>

\* a put only on the entry that was there at the parse
CanPutIfUnchanged(entry, seen) == entry = seen

\* Cache.put is called whatever the cache holds
CanPut(entry, seen) == TRUE

OtherPuts ==
  /\ other.phase = "pending"
  /\ CanPut(cache, other.seen)
  /\ cache' = Entry(other.list)
  /\ cacheTtl' = cacheExpiration
  /\ cacheKey' = cookiesKey
  /\ other' = [other EXCEPT !.phase = "written", !.lost = cache]
  /\ UNCHANGED << config, arguments, cookiesKey, cookies, interval, now,
                  sinceCall, stack, result, observed, constructed, nFetches,
                  nConstructs, nTicks >>

NextRace ==
  \/ Next
  \/ OtherParses
  \/ OtherPuts

\* the client of the race makes one attempt per request and keeps no
\* interval between its requests: neither plays a part in the race
InitRace ==
  /\ InitDefault
  /\ maxRetryCount = 1
  /\ leastIntervalMills = 0

SpecRace == InitRace /\ [][NextRace]_vars

(***************************************************************************)
(* Properties.                                                             *)
(***************************************************************************)
Exhausted == result = [kind |-> "error", message |-> ExhaustedMessage]
LoginFailure == result = [kind |-> "error", message |-> LoginFailedMessage]
Returned == result.kind = "response"

\* the request the innermost fetch gives the transport next
TargetNext == Waiting /\ Top.url = mypageUrl

\* the cookies of the list are among those of the Set-Cookie values
AreFrom(list, setCookie) ==
  \A k \in DOMAIN list : \E j \in DOMAIN setCookie : list[k] = CookieParse(setCookie[j])

\* C1: while the transport has thrown on every call of a fetch, the fetch has
\* made at most maxRetryCount calls; it goes on to the next attempt after
\* fewer, and has failed with the error of the loop exactly when it has made
\* maxRetryCount of them
Thm_C1 ==
  (nCalls > 0 /\ failures = nCalls) =>
     /\ nCalls <= maxRetryCount
     /\ attempts = nCalls
     /\ (nCalls < maxRetryCount => Waiting /\ Top.i = nCalls + 1)
     /\ (nCalls = maxRetryCount <=> Exhausted)

Wit_C1 ==
  /\ maxRetryCount = MaxRetry
  /\ failures = nCalls
  /\ nCalls = maxRetryCount
  /\ Exhausted

\* C2: when a fetch fails because every attempt threw, the message of its
\* error is the detail of the last error the transport threw
Claim_C2 ==
  (result.kind = "error" /\ lastFailure # "") => result.message = lastFailure

\* C3: a fetch enters retrieveCookies at most once; the fetch of the login
\* page and the fetch of the login request are direct calls of that one
\* retrieveCookies and start none themselves, whatever the jar holds
Thm_C3 ==
  /\ loginCount <= 1
  /\ Len(stack) <= 3
  /\ \A k \in DOMAIN stack :
       stack[k].fn = "retrieveCookies" =>
         /\ k = 2
         /\ Len(stack) = 3
         /\ stack[3].pc = "loop"
         /\ ~stack[3].shouldRetrieveCookie

Wit_C3 ==
  /\ Waiting
  /\ Top.params.method = "post"
  /\ ~cookies.defined
  /\ loginCount = 1

\* C4: a first fetch on a client built on an empty cache, while no call has
\* thrown: the first call is a GET of the login page without Cookie header,
\* the second a POST with followRedirects false whose payload has the
\* credentials, the third goes to the target with the Cookie header of the
\* cookies kept from the answer to the POST, and the fetch returns after
\* the third
FirstOnEmptyCache ==
  /\ ~cachedAtConstruct.present
  /\ fetchNo = 1
  /\ failures = 0

CacheHit == cachedAtConstruct.present /\ cachedAtConstruct.value # << >>
FirstOnCacheHit == CacheHit /\ fetchNo = 1

\* the cached cookies that had expired at construction
ExpiredAtConstruct ==
  { j \in DOMAIN cachedAtConstruct.value :
      IsExpired(cachedAtConstruct.value[j], constructedAt) }

NoneExpired == ExpiredAtConstruct = {}
AllExpired == ExpiredAtConstruct = DOMAIN cachedAtConstruct.value

\* C5: the first fetch of a client built on cached cookies of which none has
\* expired enters no login: its calls go to the target with the cached
\* cookies as Cookie header, and it returns after one call if that one does
\* not throw
Claim_C5 ==
  (FirstOnCacheHit /\ NoneExpired) =>
     /\ loginCount = 0
     /\ (Waiting =>
           /\ Top.url = mypageUrl
           /\ Top.params.headers.present
           /\ Top.params.headers.Cookie = CookieHeader(cachedAtConstruct.value))
     /\ (Returned /\ failures = 0 => nCalls = 1)

Claim_C7 ==
  (FirstOnCacheHit /\ reusesExpiredCookies) =>
     /\ cookiesAtCall = Defined(cachedAtConstruct.value)
     /\ loginCount = 0

NoCookieToSend(ck) == ~ck.defined \/ ck.list = << >>

Claim_C9 ==
  (fetchNo > 0 /\ NoCookieToSend(cookiesAtCall)) => loginCount = 1

\* C10: when the answer to the login request has no Set-Cookie header the
\* fetch has failed with the error of retrieveCookies, with the login
\* request as its last call
LoginAnswered ==
  /\ nCalls > 0
  /\ lastCall.params.method = "post"
  /\ lastFailure = ""

Thm_C10 ==
  /\ (LoginAnswered /\ ~HasSetCookie(lastSetCookie) =>
        stack = << >> /\ LoginFailure)
  /\ (LoginFailure =>
        LoginAnswered /\ ~HasSetCookie(lastSetCookie) /\ lastCall.url # mypageUrl)

Wit_C10 ==
  /\ LoginFailure
  /\ LoginAnswered
  /\ ~HasSetCookie(lastSetCookie)
  /\ stack = << >>

(***************************************************************************)
(* The login request, the spacing of the calls and the retry loop.         *)
(***************************************************************************)
\* the requests at hand: those the active fetches wait with, and the last
\* one given to the transport
Requests ==
  { stack[k].params : k \in DOMAIN stack } \cup
  (IF nCalls > 0 THEN { lastCall.params } ELSE {})

KeysOf(fields) == { p[1] : p \in fields }

\* C11: the payload of a login request has the value of authOptions for
\* every key of authOptions, also for one the login page has an input for,
\* the scraped value for every other key of the inputs, one value for a key
\* and no other key
Thm_C11 ==
  \A req \in Requests :
    req.method = "post" =>
      LET fields == req.payload.fields
          scraped == ParseLoginForm(LoginPage)
      IN /\ req.payload.present
         /\ \A p \in authOptions : p \in fields
         /\ \A p \in scraped : p[1] \notin KeysOf(authOptions) => p \in fields
         /\ \A p, q \in fields : p[1] = q[1] => p = q
         /\ KeysOf(fields) = KeysOf(scraped) \cup KeysOf(authOptions)

Wit_C11 ==
  /\ nCalls > 1
  /\ lastCall.params.method = "post"
  /\ << "username", "scraped" >> \in ParseLoginForm(LoginPage)
  /\ << "username", "test_username" >> \in lastCall.params.payload.fields
  /\ << "csrf", "tok" >> \in lastCall.params.payload.fields

\* a step in which the transport is called
IsCall == nCalls' = nCalls + 1

\* C12: a transport call of an instance comes leastIntervalMills or more
\* after the call before it, whether that one returned or threw
Claim_C12 ==
  [][ (IsCall /\ sinceCall # NoCallYet) =>
        sinceCall + ThisSleep >= leastIntervalMills ]_vars

\* C13: the first transport call of an instance is made without a sleep of
\* sleepIfNeeded, and a call that returns, made when no time has passed
\* since the call before it, is made after one sleep of leastIntervalMills
Claim_C13 ==
  [][ IsCall =>
        /\ (sinceCall = NoCallYet => ThisSleep = 0)
        /\ (sinceCall = 0 /\ lastFailure' = "" =>
              ThisSleep = leastIntervalMills) ]_vars

\* C14: when attempt i threw an error with a response code and attempt i + 1
\* is next, the last sleep before it was the one of 1000 * 2 ^ i milliseconds
Thm_C14 ==
  (lastFailure = HttpFailure /\ Waiting) =>
     /\ Top.i > 1
     /\ Top.i <= maxRetryCount
     /\ sleeps # << >>
     /\ sleeps[Len(sleeps)] =
          [ms |-> BackoffBaseMillis * 2 ^ (Top.i - 1), why |-> "backoff"]
     /\ \A k \in 1..(Len(sleeps) - 1) : sleeps[k].why # "backoff"

Wit_C14 ==
  /\ lastFailure = HttpFailure
  /\ Waiting
  /\ Top.i = 2
  /\ sleeps[Len(sleeps)].ms = 2 * BackoffBaseMillis

\* C15: after a transport call that returned, the fetch that made it is
\* over: the top-level fetch has returned the response (or retrieveCookies
\* has thrown on the answer to the login request), an inner fetch has given
\* way to the first attempt of the next request, and no backoff was slept
AnsweredLast == nCalls > 0 /\ lastFailure = ""

Thm_C15 ==
  /\ AnsweredLast =>
       /\ \A k \in DOMAIN sleeps : sleeps[k].why # "backoff"
       /\ \/ stack = << >> /\ (Returned \/ LoginFailure)
          \/ /\ Waiting
             /\ Top.i = 1
             /\ attempts = 0
             /\ << Top.url, Top.params >> # << lastCall.url, lastCall.params >>
  /\ Returned =>
       /\ AnsweredLast
       /\ stack = << >>
       /\ lastCall.url = mypageUrl

Wit_C15 ==
  /\ maxRetryCount > 1
  /\ Returned
  /\ attempts = 1
  /\ nCalls = 1
  /\ stack = << >>

(***************************************************************************)
(* The Cookie header, the jar and the cache entry.                         *)
(***************************************************************************)
\* the name=value pair of each cookie of the list: the first pair of its
\* Set-Cookie value
NameValuePairs(list) == [j \in DOMAIN list |-> list[j][1]]

\* the keys of the pairs that follow it
AttributeNames == { "Expires", "Max-Age", "Domain", "Path" }

\* C16: the Cookie header of a request is the list of the name=value pairs
\* of the cookies of the jar; no attribute of a Set-Cookie value is in it
Claim_C16 ==
  /\ \A req \in Requests :
       req.headers.present =>
         \A k \in DOMAIN req.headers.Cookie :
           req.headers.Cookie[k][1] \notin AttributeNames
  /\ (Waiting /\ Top.params.headers.present) =>
       Top.params.headers.Cookie = NameValuePairs(cookies.list)

\* C17: a request has a Cookie header only when there is a cookie in it
Claim_C17 ==
  \A req \in Requests : req.headers.present => req.headers.Cookie # << >>

\* C18: when the last response carried several Set-Cookie values, none of
\* them expired, the jar holds them all in the order received and the
\* request that follows lists their name=value pairs in that order
Claim_C18 ==
  ( /\ AnsweredLast
    /\ Len(lastSetCookie) > 1
    /\ ~HasExpired(ParseAll(lastSetCookie), now)
    /\ Waiting ) =>
     /\ cookies = Defined(ParseAll(lastSetCookie))
     /\ Top.params.headers.present
     /\ Top.params.headers.Cookie = NameValuePairs(ParseAll(lastSetCookie))

\* the names of the cookies of the list
NamesOf(list) == { list[j][1][1] : j \in DOMAIN list }

\* C19: a response updates the jar by upsert: a cookie of the jar which has
\* not expired and whose name the response does not set is still in the jar
\* after it, every cookie the response sets which has not expired is in the
\* jar, and the jar has one cookie for a name
Claim_C19 ==
  [][ (IsCall /\ lastFailure' = "" /\ cookies.defined) =>
        /\ cookies'.defined
        /\ \A j \in DOMAIN cookies.list :
             ( /\ cookies.list[j][1][1] \notin NamesOf(ParseAll(lastSetCookie'))
               /\ ~IsExpired(cookies.list[j], now') ) =>
               \E k \in DOMAIN cookies'.list : cookies'.list[k] = cookies.list[j]
        /\ \A j \in DOMAIN lastSetCookie' :
             ~IsExpired(CookieParse(lastSetCookie'[j]), now') =>
               \E k \in DOMAIN cookies'.list :
                 cookies'.list[k] = CookieParse(lastSetCookie'[j])
        /\ \A j, k \in DOMAIN cookies'.list :
             cookies'.list[j][1][1] = cookies'.list[k][1][1] => j = k ]_vars

\* the remaining lifetimes of a cookie at time t, in seconds: to its Expires
\* date, and its Max-Age
RemainingSeconds(it, t) ==
  { (it[i][2] - t) \div 1000 : i \in { n \in DOMAIN it : it[n][1] = "Expires" } }
  \cup { it[i][2] : i \in { n \in DOMAIN it : it[n][1] = "Max-Age" } }

\* the smallest of them over the cookies of the list, cacheExpiration at most
MinimumRemainingTtl(list, t) ==
  LET all == UNION { RemainingSeconds(list[j], t) : j \in DOMAIN list }
             \cup { cacheExpiration }
  IN CHOOSE m \in all : \A x \in all : m <= x

\* C20: the expiration of a write of the jar to the cache is the smallest
\* remaining lifetime of the cookies written
Claim_C20 ==
  [][ (IsCall /\ lastFailure' = "" /\ HasSetCookie(lastSetCookie')) =>
        /\ cache'.present
        /\ cacheTtl' = MinimumRemainingTtl(cache'.value, now') ]_vars

(***************************************************************************)
(* The cache entry: its expiration, its key, its writes.                   *)
(***************************************************************************)
\* the cookie has a lifetime of its own
HasLifetime(it) ==
  \E i \in DOMAIN it : it[i][1] \in { "Expires", "Max-Age" }

\* C21: the expiration of the cache entry is cacheExpiration at most, and
\* cacheExpiration when no cookie of the entry has a lifetime of its own
Thm_C21 ==
  cache.present =>
     /\ cacheTtl > 0
     /\ cacheTtl <= cacheExpiration
     /\ ((\A j \in DOMAIN cache.value : ~HasLifetime(cache.value[j])) =>
           cacheTtl = cacheExpiration)

Wit_C21 ==
  /\ cache.present
  /\ cache.value = << << << "sid", 1 >> >> >>
  /\ cacheTtl = cacheExpiration

\* C22: the key of every call of the cache is the key made at construction:
\* "AutoLoginFetchApp." and the login URL when that has MaxKeyLength
\* characters or fewer, its first MaxKeyLength characters otherwise
Thm_C22 ==
  LET full == KeyPrefix \o thisLoginUrl
  IN /\ cacheKey = cookiesKey
     /\ Len(cookiesKey) <= MaxKeyLength
     /\ (Len(full) <= MaxKeyLength => cookiesKey = full)
     /\ (Len(full) > MaxKeyLength => Len(cookiesKey) = MaxKeyLength)
     /\ cookiesKey \o SubSeq(full, Len(cookiesKey) + 1, Len(full)) = full

Wit_C22 ==
  /\ Len(KeyPrefix \o thisLoginUrl) > MaxKeyLength
  /\ Len(cookiesKey) = MaxKeyLength
  /\ cache.present
  /\ cacheKey = cookiesKey
  /\ Returned

\* C23: a response with a Set-Cookie header writes its cookies to the cache;
\* a response without one, and a call that throws, leave the cache entry and
\* the jar as they are
Thm_C23 ==
  [][ IsCall =>
        IF lastFailure' = "" /\ HasSetCookie(lastSetCookie')
          THEN /\ cache'.present
               /\ cache'.value = cookies'.list
               /\ cookies'.defined
               /\ AreFrom(cookies'.list, lastSetCookie')
               /\ cacheTtl' = cacheExpiration
          ELSE /\ cache' = cache
               /\ cacheTtl' = cacheTtl
               /\ cookies' = cookies ]_vars

Wit_C23 ==
  /\ Returned
  /\ nCalls = 1
  /\ ~HasSetCookie(lastSetCookie)
  /\ cookies.defined
  /\ cache.present
  /\ cache.value = cookies.list

(***************************************************************************)
(* The options of a request and the URL of the login request.              *)
(***************************************************************************)
\* the option keys the caller and requestOptions may both give; the Cookie
\* header is the client's own
SharedKeys == { "method", "followRedirects", "payload" }

\* C24: in the request for the target, an option the caller of fetch gave
\* has the caller's value, and an option only requestOptions gives has the
\* value of requestOptions
Claim_C24 ==
  (nCalls > 0 /\ lastCall.url = mypageUrl) =>
     \A k \in SharedKeys :
        /\ Given(givenParams, k) => lastCall.params[k] = givenParams[k]
        /\ (~Given(givenParams, k) /\ Given(requestOptions, k)) =>
              lastCall.params[k] = requestOptions[k]

\* the places of a character in a string
IndexesOf(str, ch) == { i \in 1..Len(str) : SubSeq(str, i, i) = ch }

\* the URL without its query and fragment
PathOf(url) ==
  LET marks == IndexesOf(url, "?") \cup IndexesOf(url, "#")
  IN IF marks = {} THEN url
     ELSE SubSeq(url, 1, (CHOOSE i \in marks : \A j \in marks : i <= j) - 1)

\* scheme://host[:port] of the URL: what is before the third slash
OriginOf(url) ==
  LET slashes == IndexesOf(PathOf(url), "/")
      third == { i \in slashes : Cardinality({ j \in slashes : j < i }) = 2 }
  IN IF third = {} THEN PathOf(url)
     ELSE SubSeq(url, 1, (CHOOSE i \in third : TRUE) - 1)

\* the URL up to the last slash of its path
DirectoryOf(url) ==
  LET slashes == IndexesOf(PathOf(url), "/")
  IN SubSeq(url, 1, CHOOSE i \in slashes : \A j \in slashes : j <= i)

ResolvedAction(url, action) ==
  IF SubSeq(action, 1, 1) = "/" THEN OriginOf(url) \o action
  ELSE DirectoryOf(url) \o action

PostCalled == nCalls > 0 /\ lastCall.params.method = "post"

\* C25: the login request of a form with a non-empty action goes to the
\* action resolved against the login URL
Claim_C25 ==
  (PostCalled /\ formAction \notin { Absent, "" }) =>
     lastCall.url = ResolvedAction(thisLoginUrl, formAction)

\* C26: the login request of a form with no action, or an empty one, goes
\* to the login URL
Thm_C26 ==
  /\ (PostCalled /\ formAction \in { Absent, "" }) =>
        lastCall.url = thisLoginUrl
  /\ \A k \in DOMAIN stack :
        (stack[k].params.method = "post" /\ formAction \in { Absent, "" }) =>
           stack[k].url = thisLoginUrl

Wit_C26 ==
  /\ formAction = ""
  /\ PostCalled
  /\ lastCall.url = loginUrl
  /\ lastFailure = ""
  /\ HasSetCookie(lastSetCookie)

\* the cookie has expired by its Max-Age
IsExpiredByMaxAge(it) ==
  \E i \in DOMAIN it : it[i][1] = "Max-Age" /\ it[i][2] <= 0

\* C29: with storesExpiredCookies false the value a response writes to the
\* cache has no cookie that is expired at the time of the write, neither by
\* Expires nor by Max-Age
Claim_C29 ==
  [][ (IsCall /\ ~storesExpiredCookies /\ lastFailure' = ""
         /\ HasSetCookie(lastSetCookie')) =>
        /\ cache'.present
        /\ \A j \in DOMAIN cache'.value :
              /\ ~IsExpired(cache'.value[j], now')
              /\ ~IsExpiredByMaxAge(cache'.value[j]) ]_vars

(***************************************************************************)
(* The inputs of the login form, two executions, a login that fails.       *)
(***************************************************************************)
IsControl(e) == e.type \in { "submit", "button" }
IsSoleControl(inputs) ==
  Cardinality({ i \in DOMAIN inputs : IsControl(inputs[i]) }) = 1

LowerChar(ch) ==
  CASE ch = "L" -> "l" [] ch = "O" -> "o" [] ch = "G" -> "g"
    [] ch = "I" -> "i" [] ch = "N" -> "n" [] OTHER -> ch

RECURSIVE LowerCase(_)
LowerCase(str) ==
  IF Len(str) = 0 THEN ""
  ELSE LowerChar(SubSeq(str, 1, 1)) \o LowerCase(SubSeq(str, 2, Len(str)))

ContainsLogin(name) ==
  \E i \in 1..(Len(name) - 4) : LowerCase(SubSeq(name, i, i + 4)) = "login"

\* C27: of the inputs of the login page, one of type submit or button with
\* a name is in the payload of the login request exactly when it is the
\* only such input or its name contains "login"; every other input with a
\* name is in the payload; an input without a name is not
Claim_C27 ==
  PostCalled =>
     \A i \in DOMAIN LoginPage :
        LET e == LoginPage[i]
            sent == e.name \in KeysOf(lastCall.params.payload.fields)
        IN IF e.name = "" THEN ~sent
           ELSE IF IsControl(e)
           THEN sent <=> (IsSoleControl(LoginPage) \/ ContainsLogin(e.name))
           ELSE sent

\* C28: the put of the other execution is never held back, whatever the
\* client has written to the cache since the other execution parsed its
\* cookies
Thm_C28 ==
  other.phase = "pending" => ENABLED OtherPuts

\* the cookies the client has obtained and written after the parse of the
\* other execution are replaced in the cache by those of the other execution
Wit_C28 ==
  /\ other.phase = "written"
  /\ Returned
  /\ cookies.defined
  /\ other.lost = Entry(cookies.list)
  /\ other.lost # other.seen
  /\ cache = Entry(other.list)
  /\ other.list # cookies.list

\* C30: when the last attempt of the login page, or of the login request,
\* throws, the fetch ends with the error: no frame is left that would go on
\* to the target, and the cache and the jar are as before
Thm_C30 ==
  [][ (IsCall /\ lastFailure' # "" /\ Top.url = thisLoginUrl
         /\ Top.i = maxRetryCount) =>
        /\ Exhausted'
        /\ stack' = << >>
        /\ lastCall'.url = thisLoginUrl
        /\ cache' = cache
        /\ cacheTtl' = cacheTtl
        /\ cookies' = cookies ]_vars

Wit_C30 ==
  /\ Exhausted
  /\ stack = << >>
  /\ maxRetryCount = 2
  /\ lastCall.url = loginUrl
  /\ lastCall.params.method = "post"
  /\ failures = 2
  /\ nCalls = 3
  /\ ~cache.present
  /\ ~cookies.defined

(***************************************************************************)
(* The errors of the transport and the length of a fetch.                  *)
(***************************************************************************)
\* C31: a call that throws an error without response code ends one
\* iteration of the loop: the next iteration follows, or the error after
\* the loop when it was the last, and no backoff is slept
Thm_C31 ==
  [][ (IsCall /\ lastFailure' = OtherFailure) =>
        /\ attempts' = attempts + 1
        /\ \A k \in DOMAIN sleeps' : sleeps'[k].why # "backoff"
        /\ now' = CallTime
        /\ IF Top.i < maxRetryCount
             THEN /\ stack' = [stack EXCEPT ![Len(stack)].i = Top.i + 1]
                  /\ result' = result
             ELSE /\ stack' = << >>
                  /\ Exhausted' ]_vars

Wit_C31 ==
  /\ lastFailure = OtherFailure
  /\ Waiting
  /\ Top.i = 2
  /\ attempts = 1
  /\ sleeps = << >>

\* the transport calls one top-level fetch makes at most
MostCalls == 3 * maxRetryCount

\* C34: a top-level fetch has made 3 * maxRetryCount transport calls at
\* most, and after that many it is over; a fetch that is over has returned
\* a response or thrown an error
Thm_C34 ==
  /\ nCalls <= MostCalls
  /\ nCalls = MostCalls => stack = << >>
  /\ (stack = << >> /\ fetchNo > 0) => result.kind \in { "response", "error" }
  /\ stack # << >> => Waiting /\ result.kind = "running"

Wit_C34 ==
  /\ maxRetryCount = 2
  /\ nCalls = MostCalls
  /\ failures = 4
  /\ loginCount = 1
  /\ lastCall.url = mypageUrl
  /\ Exhausted

\* C36: the last attempt throwing an error with a response code is followed
\* by the sleep of 1000 * 2 ^ maxRetryCount milliseconds, and by the error
\* after the loop
Thm_C36 ==
  [][ (IsCall /\ lastFailure' = HttpFailure /\ Top.i = maxRetryCount) =>
        /\ sleeps' # << >>
        /\ sleeps'[Len(sleeps')] =
             [ms |-> BackoffBaseMillis * 2 ^ maxRetryCount, why |-> "backoff"]
        /\ now' = After(CallTime, BackoffBaseMillis * 2 ^ maxRetryCount)
        /\ stack' = << >>
        /\ Exhausted' ]_vars

Wit_C36 ==
  /\ Exhausted
  /\ lastFailure = HttpFailure
  /\ maxRetryCount = 2
  /\ attempts = 2
  /\ lastCall.url = mypageUrl
  /\ sleeps = << [ms |-> 4000, why |-> "backoff"] >>

\* C32: with a logger the call that returns has given it two messages, the
\* request with the url and the params of the call and then the response
\* with its headers; without a logger no message is ever given
Thm_C32 ==
  [][ /\ ~logger => logged' = << >>
      /\ (IsCall /\ logger /\ lastFailure' = "") =>
            /\ Len(logged') = 2
            /\ logged'[1].kind = "request"
            /\ logged'[1].detail = lastCall'
            /\ logged'[2].kind = "response"
            /\ logged'[2].detail = lastSetCookie' ]_vars

Wit_C32 ==
  /\ logger
  /\ Returned
  /\ nCalls = 3
  /\ Len(logged) = 2
  /\ logged[1].kind = "request"
  /\ logged[1].detail.url = mypageUrl
  /\ logged[2].kind = "response"

\* C33: no step of a fetch changes requestOptions or the params object
\* the caller gave
Claim_C33 ==
  [][ (stack # << >> \/ stack' # << >>) =>
        /\ requestOptions' = requestOptions
        /\ givenParams' = givenParams ]_vars

\* C35: the step that removes the cache entry removes it under the key of
\* the instance and leaves the jar as it is; a fetch called on a jar goes to
\* the target with the cookies of the jar and without login, whatever the
\* cache holds; a client constructed on a cache without entry has no jar, and
\* a fetch called without jar logs in
Thm_C35 ==
  [][ /\ (cache.present /\ ~cache'.present) =>
            /\ cookies' = cookies
            /\ cacheKey' = cookiesKey
            /\ cookiesKey' = cookiesKey
            /\ stack' = stack
      /\ (fetchNo' = fetchNo + 1 /\ cookies.defined) =>
            /\ loginCount' = 0
            /\ Len(stack') = 1
            /\ Top'.url = mypageUrl
            /\ Top'.params.headers.present
            /\ Top'.params.headers.Cookie = CookieHeader(cookies.list)
      /\ (nConstructs' = nConstructs + 1 /\ ~cache.present) =>
            ~cookies'.defined
      /\ (fetchNo' = fetchNo + 1 /\ ~cookies.defined) =>
            /\ loginCount' = 1
            /\ Top'.url = thisLoginUrl ]_vars

\* the second fetch of an instance whose cache entry has been removed since
\* its login: it is about to request the target with the cookies of the jar
Wit_C35 ==
  /\ fetchNo = 2
  /\ nConstructs = 0
  /\ ~cache.present
  /\ TargetNext
  /\ nCalls = 0
  /\ loginCount = 0
  /\ cookies.list # << >>
  /\ Top.params.headers.Cookie = CookieHeader(cookies.list)

====
